---- MODULE Spec2Model ----
(***************************************************************************)
(* A model of the space preprocessing helpers of rllte/common/             *)
(* preprocessing.py and of the MiniGrid environment wrappers of            *)
(* hsuanwu/env/minigrid/__init__.py.                                       *)
(*                                                                         *)
(* A gymnasium space is a record tagged by "kind".  An ndarray of bounds   *)
(* (Box.low, Box.high) is a record [base, over]: every element holds base  *)
(* except the flat (row-major) indices in DOMAIN over, which hold over[k]. *)
(* A call's outcome is a record [status, value]: status "ok" with the      *)
(* returned value, or the name of the exception the call raised.           *)
(***************************************************************************)
EXTENDS Integers, Sequences, FiniteSets, TLC

VARIABLES space, op, arg, ret,
          base_env, wrapped, observed,
          made, thunks, pending, envs, wrapper, phase, stepin, stepout

\* space, op, arg, ret: the space handed to a preprocessing function, the
\*   function last called on it, that call's further arguments and its outcome
\* base_env, wrapped, observed: the environment under Minigrid2Image (its
\*   observation space and current observation), the wrapper, and what the
\*   wrapper's observation method last returned
\* made, thunks, pending, envs, wrapper, phase, stepin, stepout: the arguments
\*   of make_minigrid_env, the constructors it built, those not invoked yet, the
\*   instances made, the TorchVecEnvWrapper, how far construction and use have
\*   got, and the last reset/step call (what the wrapped vector environment
\*   answered, what the wrapper returned)
vars == <<space, op, arg, ret, base_env, wrapped, observed,
          made, thunks, pending, envs, wrapper, phase, stepin, stepout>>

prepVars == <<space, op, arg, ret>>
imageVars == <<base_env, wrapped, observed>>
envVars == <<made, thunks, pending, envs, wrapper, phase, stepin, stepout>>

(***************************************************************************)
(* Bounds of the model.                                                    *)
(***************************************************************************)
MaxDim == 4
MaxRank == 3
MaxN == 5
MaxBatch == 3
MaxRows == 2

(***************************************************************************)
(* Generic helpers.                                                        *)
(***************************************************************************)
Ok(v) == [status |-> "ok", value |-> v]
Raise(e) == [status |-> e, value |-> <<>>]
None == [status |-> "none", value |-> <<>>]

RECURSIVE Prod(_)
Prod(s) == IF s = <<>> THEN 1 ELSE Head(s) * Prod(Tail(s))

RECURSIVE Sum(_)
Sum(s) == IF s = <<>> THEN 0 ELSE Head(s) + Sum(Tail(s))

RECURSIVE SeqsUpTo(_, _)
SeqsUpTo(S, n) ==
    IF n = 0 THEN {<<>>}
    ELSE LET shorter == SeqsUpTo(S, n - 1)
         IN shorter \cup {Append(q, x) : q \in {r \in shorter : Len(r) = n - 1}, x \in S}

Last(s) == s[Len(s)]

(***************************************************************************)
(* ndarrays of bounds.                                                     *)
(***************************************************************************)
Full(v) == [base |-> v, over |-> <<>>]
FullBut(v, k, w) == [base |-> v, over |-> (k :> w)]
At(a, k) == IF k \in DOMAIN a.over THEN a.over[k] ELSE a.base

\* np.any(a != v) for an array a of `size` elements
AnyNotEqual(a, size, v) ==
    \/ \E k \in DOMAIN a.over : k < size /\ a.over[k] # v
    \/ a.base # v /\ \E k \in 0..(size - 1) : k \notin DOMAIN a.over

\* a[0] followed by float(...) / int(...): indexing a 0-d array raises
\* IndexError; a[0] of an array of rank r is the sub-array of the r-1 trailing
\* axes, and the scalar conversion accepts only an array of exactly one element.
ScalarOfFirst(a, shape) ==
    IF Len(shape) = 0 \/ Head(shape) = 0 THEN Raise("IndexError")
    ELSE IF Prod(Tail(shape)) # 1 THEN Raise("TypeError")
    ELSE Ok(At(a, 0))

(***************************************************************************)
(* Spaces.                                                                 *)
(***************************************************************************)
Box(shape, dtype, low, high) ==
    [kind |-> "Box", shape |-> shape, dtype |-> dtype, low |-> low, high |-> high]
Discrete(n) == [kind |-> "Discrete", n |-> n]
MultiDiscrete(nvec) == [kind |-> "MultiDiscrete", nvec |-> nvec]
MultiBinary(shape) == [kind |-> "MultiBinary", shape |-> shape]
DictSpace(spaces) == [kind |-> "Dict", spaces |-> spaces]
TupleSpace(members) == [kind |-> "Tuple", members |-> members]
TextSpace(max_length) == [kind |-> "Text", max_length |-> max_length]

\* the .shape attribute of a space: () for Discrete, and None (written
\* "None") for the Dict, Tuple and Text spaces
shape_of(s) ==
    IF s.kind \in {"Box", "MultiBinary"} THEN s.shape
    ELSE IF s.kind = "Discrete" THEN <<>>
    ELSE IF s.kind = "MultiDiscrete" THEN <<Len(s.nvec)>>
    ELSE "None"

(***************************************************************************)
(* process_observation_space                                               *)
(***************************************************************************)
RECURSIVE process_observation_space(_)
\* a faulty variant: a Discrete space reported by its number of classes
process_observation_space_classes(observation_space) ==
    IF observation_space.kind = "Box" THEN Ok(observation_space.shape)
    ELSE IF observation_space.kind = "Discrete" THEN Ok(<<observation_space.n>>)
    ELSE IF observation_space.kind = "MultiDiscrete"
         THEN Ok(<<Len(observation_space.nvec)>>)
    ELSE IF observation_space.kind = "MultiBinary" THEN Ok(observation_space.shape)
    ELSE IF observation_space.kind = "Dict"
         THEN LET sub == [key \in DOMAIN observation_space.spaces |->
                            process_observation_space(observation_space.spaces[key])]
              IN IF \E key \in DOMAIN sub : sub[key].status # "ok"
                 THEN Raise("NotImplementedError")
                 ELSE Ok([key \in DOMAIN sub |-> sub[key].value])
    ELSE Raise("NotImplementedError")

process_observation_space(observation_space) ==
    IF observation_space.kind = "Box" THEN Ok(observation_space.shape)
    ELSE IF observation_space.kind = "Discrete" THEN Ok(<<1>>)
    ELSE IF observation_space.kind = "MultiDiscrete"
         THEN Ok(<<Len(observation_space.nvec)>>)
    ELSE IF observation_space.kind = "MultiBinary" THEN Ok(observation_space.shape)
    ELSE IF observation_space.kind = "Dict"
         THEN LET sub == [key \in DOMAIN observation_space.spaces |->
                            process_observation_space(observation_space.spaces[key])]
              IN IF \E key \in DOMAIN sub : sub[key].status # "ok"
                 THEN Raise("NotImplementedError")
                 ELSE Ok([key \in DOMAIN sub |-> sub[key].value])
    ELSE Raise("NotImplementedError")

(***************************************************************************)
(* process_action_space                                                    *)
(***************************************************************************)
ActionInfo(shape, dim, type, range) ==
    [action_shape |-> shape, action_dim |-> dim,
     action_type |-> type, action_range |-> range]

\* a faulty variant: the upper end of a Discrete range off by one
process_action_space_off_by_one(action_space) ==
    LET action_shape == shape_of(action_space)
    IN IF action_space.kind = "Discrete"
       THEN Ok(ActionInfo(action_shape, action_space.n, "Discrete",
                          <<0, action_space.n>>))
       ELSE IF action_space.kind = "Box"
       THEN LET lo == ScalarOfFirst(action_space.low, action_space.shape)
                hi == ScalarOfFirst(action_space.high, action_space.shape)
            IN IF lo.status # "ok" THEN Raise(lo.status)
               ELSE IF hi.status # "ok" THEN Raise(hi.status)
               ELSE Ok(ActionInfo(action_shape, Prod(action_space.shape), "Box",
                                  <<lo.value, hi.value>>))
       ELSE IF action_space.kind = "MultiDiscrete"
       THEN IF Len(action_space.nvec) = 0 THEN Raise("IndexError")
            ELSE Ok(ActionInfo(action_shape, Len(action_space.nvec), "MultiDiscrete",
                               <<0, action_space.nvec[1] - 1>>))
       ELSE IF action_space.kind = "MultiBinary"
       THEN IF Len(action_space.shape) = 0 THEN Raise("IndexError")
            ELSE Ok(ActionInfo(action_shape, action_space.shape[1], "MultiBinary",
                               <<0, 1>>))
       ELSE Raise("NotImplementedError")

process_action_space(action_space) ==
    LET action_shape == shape_of(action_space)
    IN IF action_space.kind = "Discrete"
       THEN Ok(ActionInfo(action_shape, action_space.n, "Discrete",
                          <<0, action_space.n - 1>>))
       ELSE IF action_space.kind = "Box"
       THEN LET lo == ScalarOfFirst(action_space.low, action_space.shape)
                hi == ScalarOfFirst(action_space.high, action_space.shape)
            IN IF lo.status # "ok" THEN Raise(lo.status)
               ELSE IF hi.status # "ok" THEN Raise(hi.status)
               ELSE Ok(ActionInfo(action_shape, Prod(action_space.shape), "Box",
                                  <<lo.value, hi.value>>))
       ELSE IF action_space.kind = "MultiDiscrete"
       THEN IF Len(action_space.nvec) = 0 THEN Raise("IndexError")
            ELSE Ok(ActionInfo(action_shape, Len(action_space.nvec), "MultiDiscrete",
                               <<0, action_space.nvec[1] - 1>>))
       ELSE IF action_space.kind = "MultiBinary"
       THEN IF Len(action_space.shape) = 0 THEN Raise("IndexError")
            ELSE Ok(ActionInfo(action_shape, action_space.shape[1], "MultiBinary",
                               <<0, 1>>))
       ELSE Raise("NotImplementedError")

(***************************************************************************)
(* get_flattened_obs_dim                                                   *)
(***************************************************************************)
RECURSIVE SumOver(_, _)
SumOver(f, D) ==
    IF D = {} THEN 0
    ELSE LET k == CHOOSE x \in D : TRUE IN f[k] + SumOver(f, D \ {k})

\* gymnasium.spaces.utils.flatdim
RECURSIVE flatdim(_)
flatdim(s) ==
    IF s.kind \in {"Box", "MultiBinary"} THEN Prod(s.shape)
    ELSE IF s.kind = "Discrete" THEN s.n
    ELSE IF s.kind = "MultiDiscrete" THEN Sum(s.nvec)
    ELSE IF s.kind = "Dict"
         THEN SumOver([k \in DOMAIN s.spaces |-> flatdim(s.spaces[k])], DOMAIN s.spaces)
    ELSE IF s.kind = "Tuple"
         THEN SumOver([k \in DOMAIN s.members |-> flatdim(s.members[k])], DOMAIN s.members)
    ELSE s.max_length

\* a faulty variant: a MultiDiscrete space counted by its number of features
get_flattened_obs_dim_features(observation_space) ==
    IF observation_space.kind = "MultiDiscrete" THEN Len(observation_space.nvec)
    ELSE flatdim(observation_space)

get_flattened_obs_dim(observation_space) ==
    IF observation_space.kind = "MultiDiscrete" THEN Sum(observation_space.nvec)
    ELSE flatdim(observation_space)

(***************************************************************************)
(* is_image_space_channels_first, is_image_space                           *)
(***************************************************************************)
\* np.argmin: the (0-based) index of the first occurrence of the minimum
argmin(shape) ==
    (CHOOSE i \in 1..Len(shape) :
        /\ \A j \in 1..Len(shape) : shape[i] <= shape[j]
        /\ \A j \in 1..(i - 1) : shape[j] > shape[i]) - 1

\* a faulty variant: axis 0 must be strictly the smallest
is_image_space_channels_first_strict(observation_space) ==
    /\ observation_space.shape[1] < observation_space.shape[2]
    /\ observation_space.shape[1] < observation_space.shape[3]

is_image_space_channels_first(observation_space) ==
    LET smallest_dimension == argmin(observation_space.shape)
    IN smallest_dimension = 0

is_image_space(observation_space, check_channels, normalized_image) ==
    LET check_dtype == ~normalized_image
        check_bounds == ~normalized_image
    IN IF observation_space.kind = "Box" /\ Len(observation_space.shape) = 3
       THEN IF check_dtype /\ observation_space.dtype # "uint8" THEN FALSE
            ELSE LET size == Prod(observation_space.shape)
                     incorrect_bounds ==
                        \/ AnyNotEqual(observation_space.low, size, 0)
                        \/ AnyNotEqual(observation_space.high, size, 255)
                 IN IF check_bounds /\ incorrect_bounds THEN FALSE
                    ELSE IF ~check_channels THEN TRUE
                    ELSE LET n_channels ==
                                IF is_image_space_channels_first(observation_space)
                                THEN observation_space.shape[1]
                                ELSE Last(observation_space.shape)
                         IN n_channels \in {1, 3, 4}
       ELSE FALSE

(***************************************************************************)
(* get_preprocess_obs_fn.  A tensor is a record [dtype, div, data]: its    *)
(* elements are data / div.                                                *)
(***************************************************************************)
Tensor(dtype, div, data) == [dtype |-> dtype, div |-> div, data |-> data]

RECURSIVE ConcatAll(_)
ConcatAll(seqs) == IF seqs = <<>> THEN <<>> ELSE Head(seqs) \o ConcatAll(Tail(seqs))

\* F.one_hot of one class value: a vector of num_classes entries
\* a faulty variant: the 1 placed one index too low
one_hot_vector_shifted(v, num_classes) == [i \in 1..num_classes |-> IF i = v THEN 1 ELSE 0]

one_hot_vector(v, num_classes) == [i \in 1..num_classes |-> IF i = v + 1 THEN 1 ELSE 0]

\* F.one_hot(th.as_tensor(obs).long(), num_classes) of a 1-d batch
one_hot(obs, num_classes) ==
    IF \E b \in 1..Len(obs) : obs[b] < 0 \/ obs[b] >= num_classes
    THEN Raise("RuntimeError")
    ELSE Ok(Tensor("int64", 1, [b \in 1..Len(obs) |-> one_hot_vector(obs[b], num_classes)]))

\* th.split(obs, 1, dim=1) of a B x K batch: K chunks of shape B x 1
split_columns(obs, K) == [idx \in 1..K |-> [b \in 1..Len(obs) |-> <<obs[b][idx]>>]]

\* tensor.view(rows, width) of a B x 1 x W tensor
view(t, rows, width) ==
    LET flat == ConcatAll([b \in 1..Len(t) |-> ConcatAll(t[b])])
    IN IF Len(flat) # rows * width THEN Raise("RuntimeError")
       ELSE Ok([b \in 1..rows |-> SubSeq(flat, (b - 1) * width + 1, b * width)])

\* The batch is a list of rows.  An empty list is a 1-d tensor, for which
\* th.split(..., dim=1) raises IndexError.  The list comprehension takes the
\* columns left to right: for column idx, nvec[idx] raises IndexError past the
\* end of nvec, then F.one_hot raises RuntimeError on a class value out of
\* range; the first column to fail decides the exception.
_multi_discrete_to_one_hot(observation_space, obs) ==
    LET nvec == observation_space.nvec
        K == IF obs = <<>> THEN 0 ELSE Len(obs[1])
        chunks == split_columns(obs, K)
        fails(idx) ==
            \/ idx > Len(nvec)
            \/ \E b \in 1..Len(obs) :
                  chunks[idx][b][1] < 0 \/ chunks[idx][b][1] >= nvec[idx]
    IN IF obs = <<>> THEN Raise("IndexError")
       ELSE IF \E idx \in 1..K : fails(idx)
       THEN LET first == CHOOSE idx \in 1..K :
                            fails(idx) /\ \A j \in 1..(idx - 1) : ~fails(j)
            IN IF first > Len(nvec) THEN Raise("IndexError")
               ELSE Raise("RuntimeError")
       ELSE LET hot == [idx \in 1..K |-> [b \in 1..Len(obs) |->
                            <<one_hot_vector(chunks[idx][b][1], nvec[idx])>>]]
                cat == [b \in 1..Len(obs) |->
                            <<ConcatAll([idx \in 1..K |-> hot[idx][b][1]])>>]
                out == view(cat, Len(obs), Sum(nvec))
            IN IF out.status # "ok" THEN out
               ELSE Ok(Tensor("float32", 1, out.value))

\* a faulty variant: any other space falls through to the float cast
get_preprocess_obs_fn_default(observation_space) ==
    IF observation_space.kind = "Box"
    THEN IF is_image_space(observation_space, FALSE, FALSE)
         THEN Ok("divide_by_255")
         ELSE Ok("as_float32")
    ELSE IF observation_space.kind = "Discrete" THEN Ok("one_hot")
    ELSE IF observation_space.kind = "MultiDiscrete" THEN Ok("_multi_discrete_to_one_hot")
    ELSE Ok("float")

get_preprocess_obs_fn(observation_space) ==
    IF observation_space.kind = "Box"
    THEN IF is_image_space(observation_space, FALSE, FALSE)
         THEN Ok("divide_by_255")
         ELSE Ok("as_float32")
    ELSE IF observation_space.kind = "Discrete" THEN Ok("one_hot")
    ELSE IF observation_space.kind = "MultiDiscrete" THEN Ok("_multi_discrete_to_one_hot")
    ELSE IF observation_space.kind = "MultiBinary" THEN Ok("float")
    ELSE Raise("NotImplementedError")

\* calling the function get_preprocess_obs_fn returned
preprocess_obs(observation_space, fn, obs) ==
    IF fn = "divide_by_255" THEN Ok(Tensor("float32", 255, obs))
    ELSE IF fn = "as_float32" THEN Ok(Tensor("float32", 1, obs))
    ELSE IF fn = "one_hot" THEN one_hot(obs, observation_space.n)
    ELSE IF fn = "_multi_discrete_to_one_hot"
         THEN _multi_discrete_to_one_hot(observation_space, obs)
    ELSE Ok(Tensor("float32", 1, obs))

(***************************************************************************)
(* The spaces and observation batches the functions are applied to.        *)
(***************************************************************************)
Shapes == (SeqsUpTo(1..MaxDim, MaxRank) \ {<<>>})
            \cup {<<>>, <<3, 84, 84>>, <<84, 84, 3>>, <<84, 3, 84>>}

\* the (low, high) bounds a Box is declared with: uniform, or with the first or
\* the last element set apart
BoundsOf(size) ==
    {<<Full(0), Full(255)>>, <<Full(-1), Full(1)>>, <<Full(0), Full(1)>>,
     <<FullBut(0, size - 1, -1), Full(255)>>,
     <<Full(0), FullBut(255, size - 1, 1)>>,
     <<FullBut(-1, 0, 0), FullBut(1, 0, 255)>>}

BoxSpaces ==
    UNION {{Box(sh, dt, b[1], b[2]) : dt \in {"uint8", "float32"},
                                      b \in BoundsOf(Prod(sh))} : sh \in Shapes}
DiscreteSpaces == {Discrete(n) : n \in 1..MaxN}
NvecSamples == {<<1>>, <<2>>, <<3>>, <<1, 1>>, <<2, 3>>, <<3, 2>>, <<2, 1, 2>>, <<3, 4, 5>>}
MultiDiscreteSpaces == {MultiDiscrete(nvec) : nvec \in NvecSamples}
MultiBinarySpaces == {MultiBinary(sh) : sh \in SeqsUpTo(1..MaxDim, 2) \ {<<>>}}
UnsupportedSpaces ==
    {TupleSpace(<<Discrete(2)>>), TupleSpace(<<Discrete(2), MultiBinary(<<2>>)>>),
     TupleSpace(<<>>), TextSpace(3)}

LeafSamples ==
    {Box(<<3, 4, 4>>, "uint8", Full(0), Full(255)),
     Box(<<2>>, "float32", Full(-1), Full(1)),
     Discrete(3), MultiDiscrete(<<3, 4, 5>>), MultiBinary(<<2>>),
     TupleSpace(<<Discrete(2)>>)}
Keys == {"image", "state"}
DictsOver(children) ==
    {DictSpace(f) : f \in UNION {[K -> children] : K \in SUBSET Keys}}
MaxDepth == 2
RECURSIVE DictSpaces(_)
DictSpaces(depth) ==
    IF depth <= 1 THEN DictsOver(LeafSamples)
    ELSE LET below == DictSpaces(depth - 1)
         IN below \cup {DictSpace("nested" :> x) : x \in below}
                  \cup {DictSpace(("nested" :> x) @@ ("state" :> Discrete(3))) : x \in below}

Spaces == BoxSpaces \cup DiscreteSpaces \cup MultiDiscreteSpaces \cup MultiBinarySpaces
            \cup DictSpaces(MaxDepth) \cup UnsupportedSpaces

\* the rows of a MultiDiscrete batch: each feature takes its first, its middle
\* or its last class
RECURSIVE RowsOf(_)
RowsOf(nvec) ==
    IF nvec = <<>> THEN {<<>>}
    ELSE {<<v>> \o r : v \in {0, Head(nvec) \div 2, Head(nvec) - 1},
                       r \in RowsOf(Tail(nvec))}

ObsBatches(s) ==
    IF s.kind = "Discrete" THEN SeqsUpTo(0..s.n, MaxBatch)
    ELSE IF s.kind = "MultiDiscrete" THEN SeqsUpTo(RowsOf(s.nvec), MaxRows)
    ELSE IF s.kind = "MultiBinary" THEN {<<>>, <<0, 1>>}
    ELSE {<<>>, <<0, 255>>}

(***************************************************************************)
(* The preprocessing functions as operations on a given space.             *)
(***************************************************************************)
PrepInit ==
    /\ space \in Spaces
    /\ op = "init"
    /\ arg = <<>>
    /\ ret = None

ProcessObservationSpace ==
    /\ op = "init"
    /\ op' = "process_observation_space"
    /\ arg' = <<>>
    /\ ret' = process_observation_space(space)
    /\ UNCHANGED <<space, imageVars, envVars>>

ProcessActionSpace ==
    /\ op = "init"
    /\ op' = "process_action_space"
    /\ arg' = <<>>
    /\ ret' = process_action_space(space)
    /\ UNCHANGED <<space, imageVars, envVars>>

GetFlattenedObsDim ==
    /\ op = "init"
    /\ op' = "get_flattened_obs_dim"
    /\ arg' = <<>>
    /\ ret' = Ok(get_flattened_obs_dim(space))
    /\ UNCHANGED <<space, imageVars, envVars>>

IsImageSpaceChannelsFirst ==
    /\ op = "init"
    /\ space.kind = "Box"
    /\ Len(space.shape) = 3
    /\ op' = "is_image_space_channels_first"
    /\ arg' = <<>>
    /\ ret' = Ok(is_image_space_channels_first(space))
    /\ UNCHANGED <<space, imageVars, envVars>>

IsImageSpace ==
    \E check_channels \in BOOLEAN, normalized_image \in BOOLEAN :
        /\ op = "init"
        /\ op' = "is_image_space"
        /\ arg' = [check_channels |-> check_channels,
                   normalized_image |-> normalized_image]
        /\ ret' = Ok(is_image_space(space, check_channels, normalized_image))
        /\ UNCHANGED <<space, imageVars, envVars>>

GetPreprocessObsFn ==
    /\ op = "init"
    /\ op' = "get_preprocess_obs_fn"
    /\ arg' = <<>>
    /\ ret' = get_preprocess_obs_fn(space)
    /\ UNCHANGED <<space, imageVars, envVars>>

CallPreprocessObsFn ==
    /\ op = "get_preprocess_obs_fn"
    /\ ret.status = "ok"
    /\ \E obs \in ObsBatches(space) :
        /\ op' = "preprocess_obs"
        /\ arg' = obs
        /\ ret' = preprocess_obs(space, ret.value, obs)
    /\ UNCHANGED <<space, imageVars, envVars>>

PrepNext ==
    \/ ProcessObservationSpace
    \/ ProcessActionSpace
    \/ GetFlattenedObsDim
    \/ IsImageSpaceChannelsFirst
    \/ IsImageSpace
    \/ GetPreprocessObsFn
    \/ CallPreprocessObsFn

NoCall == [call |-> "none", action_shape |-> <<>>, res |-> None]
ImageIdle == base_env = None /\ wrapped = None /\ observed = None
EnvIdle ==
    /\ made = None /\ thunks = <<>> /\ pending = {} /\ envs = <<>>
    /\ wrapper = None /\ phase = "none" /\ stepin = NoCall /\ stepout = None
PrepIdle == space = None /\ op = "none" /\ arg = <<>> /\ ret = None

Init == PrepInit /\ ImageIdle /\ EnvIdle
Next == PrepNext
Spec == Init /\ [][Next]_vars

(***************************************************************************)
(* Minigrid2Image: the wrapper over an environment whose observations are  *)
(* dictionaries with an "image" entry of shape (H, W, C).                  *)
(***************************************************************************)
MaxSide == 3
MaxFrame == 2

\* the image the wrapped environment shows in frame k: every pixel differs
Pixels(shape, k) ==
    [h \in 1..shape[1] |-> [w \in 1..shape[2] |-> [c \in 1..shape[3] |->
        (k + ((h - 1) * shape[2] + (w - 1)) * shape[3] + (c - 1)) % 256]]]

\* the shape of a nested 3-d array
shape3(a) ==
    IF Len(a) = 0 THEN <<0>>
    ELSE IF Len(a[1]) = 0 THEN <<Len(a), 0>>
    ELSE <<Len(a), Len(a[1]), Len(a[1][1])>>

\* np.transpose(a, axes) of a 3-d array: axis d of the result is axis axes[d] of a
transpose(a, axes) ==
    LET shape == shape3(a)
        pick(m, i) == i[CHOOSE d \in 1..3 : axes[d] + 1 = m]
    IN [i1 \in 1..shape[axes[1] + 1] |-> [i2 \in 1..shape[axes[2] + 1] |->
          [i3 \in 1..shape[axes[3] + 1] |->
              a[pick(1, <<i1, i2, i3>>)][pick(2, <<i1, i2, i3>>)][pick(3, <<i1, i2, i3>>)]]]]

Minigrid2Image__init__(env) ==
    LET observation_space == env.observation_space.spaces["image"]
        shape == observation_space.shape
    IN [observation_space |->
            Box(<<shape[3], shape[1], shape[2]>>, observation_space.dtype,
                Full(0), Full(255))]

\* a faulty variant: the axes reversed, (W, H, C) -> (C, W, H)
Minigrid2Image_observation_reversed(observation) == transpose(observation["image"], <<2, 1, 0>>)

Minigrid2Image_observation(observation) == transpose(observation["image"], <<2, 0, 1>>)

InnerEnvs ==
    {[observation_space |->
          DictSpace([image |-> Box(<<H, W, C>>, "uint8", Full(0), hi),
                     direction |-> Discrete(4)]),
      obs |-> [image |-> Pixels(<<H, W, C>>, 0), direction |-> 0]] :
        H \in 1..MaxSide, W \in 1..MaxSide, C \in 1..MaxSide,
        hi \in {Full(255), Full(10)}}

ImageInit ==
    /\ base_env \in InnerEnvs
    /\ wrapped = None
    /\ observed = None

WrapImage ==
    /\ wrapped = None
    /\ wrapped' = Ok(Minigrid2Image__init__(base_env))
    /\ UNCHANGED <<base_env, observed, prepVars, envVars>>

\* reset/step of the wrapper: the environment shows a frame and the wrapper
\* returns observation(...) of it
ObserveImage ==
    /\ wrapped.status = "ok"
    /\ \E k \in 0..MaxFrame, d \in 0..3 :
        LET shape == base_env.observation_space.spaces["image"].shape
            raw == [image |-> Pixels(shape, k), direction |-> d]
        IN /\ base_env' = [base_env EXCEPT !.obs = raw]
           /\ observed' = Ok(Minigrid2Image_observation(raw))
    /\ UNCHANGED <<wrapped, prepVars, envVars>>

ImageNext == WrapImage \/ ObserveImage

InitImage == ImageInit /\ PrepIdle /\ EnvIdle
SpecImage == InitImage /\ [][ImageNext]_vars

(***************************************************************************)
(* make_minigrid_env and TorchVecEnvWrapper.                               *)
(***************************************************************************)
MaxEnvs == 3
MaxSeed == 2

\* make_env: the closure _thunk with env_id and seed bound
make_env(env_id, seed) == [env_id |-> env_id, seed |-> seed]

\* a faulty variant: every constructor gets the seed of the call
env_fns_same_seed(env_id, num_envs, seed) ==
    [i \in 1..num_envs |-> make_env(env_id, seed)]

\* the list comprehension of make_minigrid_env
env_fns(env_id, num_envs, seed) ==
    [i \in 1..num_envs |-> make_env(env_id, seed + (i - 1))]

\* _thunk(): one environment instance
_thunk(closure, fully_observable, frame_stack) ==
    [env_id |-> closure.env_id,
     wrappers |-> IF fully_observable
                  THEN <<"FullyObsWrapper", "Minigrid2Image", "FrameStack">>
                  ELSE <<"FlatObsWrapper">>,
     frame_stack |-> IF fully_observable THEN frame_stack ELSE 0,
     action_space_seed |-> closure.seed,
     observation_space_seed |-> closure.seed]

TorchVecEnvWrapper__init__(env, device) ==
    [device |-> device, num_envs |-> Len(env)]

\* tensor.squeeze(1) on a tensor of the given shape
squeeze1(shape) ==
    IF Len(shape) < 2 THEN Raise("IndexError")
    ELSE IF shape[2] = 1 THEN Ok(<<shape[1]>> \o SubSeq(shape, 3, Len(shape)))
    ELSE Ok(shape)

TorchVecEnvWrapper_reset(res) == Ok([obs |-> res.obs, info |-> res.info])

\* The wrapped vector environment reports float64 rewards.  A reward is written
\* as a whole number of float64 spacings within one binade; float32 keeps
\* DroppedBits fewer mantissa bits (29 in IEEE 754, scaled down here), so the
\* float32 values are the multiples of Float32Step.
DroppedBits == 2
Float32Step == 2 ^ DroppedBits

\* th.as_tensor(reward, dtype=th.float32) on one reward: round to the nearest
\* float32 value, a tie going to the even one
as_float32(x) ==
    LET q == x \div Float32Step
        r == x % Float32Step
    IN IF 2 * r < Float32Step THEN q * Float32Step
       ELSE IF 2 * r > Float32Step THEN (q + 1) * Float32Step
       ELSE IF q % 2 = 0 THEN q * Float32Step
       ELSE (q + 1) * Float32Step

\* a faulty variant: truncated built from the terminated flags
TorchVecEnvWrapper_step_copied(action_shape, res) ==
    LET squeezed == squeeze1(action_shape)
    IN IF squeezed.status # "ok" THEN Raise(squeezed.status)
       ELSE IF res.status # "ok" THEN Raise(res.status)
       ELSE Ok([obs |-> res.value.obs,
                reward |-> [i \in 1..Len(res.value.reward) |->
                               <<as_float32(res.value.reward[i])>>],
                terminated |-> [i \in 1..Len(res.value.terminated) |->
                                   IF res.value.terminated[i] THEN <<1>> ELSE <<0>>],
                truncated |-> [i \in 1..Len(res.value.terminated) |->
                                   IF res.value.terminated[i] THEN <<1>> ELSE <<0>>],
                info |-> res.value.info])

\* step, given the shape of the action tensor and the outcome of the wrapped
\* vector environment's step on the squeezed action
TorchVecEnvWrapper_step(action_shape, res) ==
    LET squeezed == squeeze1(action_shape)
    IN IF squeezed.status # "ok" THEN Raise(squeezed.status)
       ELSE IF res.status # "ok" THEN Raise(res.status)
       ELSE Ok([obs |-> res.value.obs,
                reward |-> [i \in 1..Len(res.value.reward) |->
                               <<as_float32(res.value.reward[i])>>],
                terminated |-> [i \in 1..Len(res.value.terminated) |->
                                   IF res.value.terminated[i] THEN <<1>> ELSE <<0>>],
                truncated |-> [i \in 1..Len(res.value.truncated) |->
                                   IF res.value.truncated[i] THEN <<1>> ELSE <<0>>],
                info |-> res.value.info])

\* what one environment of the vector can report for a step: no reward, a
\* reward that float32 holds exactly, and one just above a float32 value
EnvOutcomes ==
    {[reward |-> 0, terminated |-> FALSE, truncated |-> FALSE],
     [reward |-> 2 * Float32Step, terminated |-> TRUE, truncated |-> FALSE],
     [reward |-> 0, terminated |-> FALSE, truncated |-> TRUE],
     [reward |-> Float32Step + 1, terminated |-> TRUE, truncated |-> TRUE]}

EnvInit ==
    /\ made = None /\ thunks = <<>> /\ pending = {} /\ envs = <<>>
    /\ wrapper = None /\ phase = "none" /\ stepin = NoCall /\ stepout = None

\* make_minigrid_env up to the list of constructors it hands to SyncVectorEnv
MakeMinigridEnv ==
    /\ phase = "none"
    /\ \E num_envs \in 1..MaxEnvs, seed \in 0..MaxSeed, fully_observable \in BOOLEAN :
        /\ made' = Ok([env_id |-> "MiniGrid-Empty-5x5-v0", num_envs |-> num_envs,
                       fully_observable |-> fully_observable, seed |-> seed,
                       frame_stack |-> 1, device |-> "cpu"])
        /\ thunks' = env_fns("MiniGrid-Empty-5x5-v0", num_envs, seed)
        /\ pending' = 1..num_envs
    /\ phase' = "constructing"
    /\ UNCHANGED <<envs, wrapper, stepin, stepout, prepVars, imageVars>>

\* SyncVectorEnv invokes one of the constructors
InvokeThunk ==
    /\ phase = "constructing"
    /\ \E i \in pending :
        /\ envs' = (i :> _thunk(thunks[i], made.value.fully_observable,
                                made.value.frame_stack)) @@ envs
        /\ pending' = pending \ {i}
    /\ UNCHANGED <<made, thunks, wrapper, phase, stepin, stepout, prepVars, imageVars>>

\* ... and make_minigrid_env wraps the vector environment
WrapVecEnv ==
    /\ phase = "constructing"
    /\ pending = {}
    /\ wrapper' = Ok(TorchVecEnvWrapper__init__(envs, made.value.device))
    /\ phase' = "built"
    /\ UNCHANGED <<made, thunks, pending, envs, stepin, stepout, prepVars, imageVars>>

Reset ==
    /\ phase \in {"built", "running"}
    /\ LET res == [obs |-> [i \in 1..Len(envs) |-> [env |-> i, frame |-> 0]],
                   info |-> <<>>]
       IN /\ stepin' = [call |-> "reset", action_shape |-> <<>>, res |-> Ok(res)]
          /\ stepout' = TorchVecEnvWrapper_reset(res)
    /\ phase' = "running"
    /\ UNCHANGED <<made, thunks, pending, envs, wrapper, prepVars, imageVars>>

\* step before the first reset is refused by the wrapped environments
Step ==
    /\ phase \in {"built", "running"}
    /\ \/ /\ phase = "running"
          /\ \E out \in [1..Len(envs) -> EnvOutcomes] :
               LET res == Ok([obs |-> [i \in 1..Len(envs) |-> [env |-> i, frame |-> 1]],
                              reward |-> [i \in 1..Len(envs) |-> out[i].reward],
                              terminated |-> [i \in 1..Len(envs) |-> out[i].terminated],
                              truncated |-> [i \in 1..Len(envs) |-> out[i].truncated],
                              info |-> <<>>])
                   action_shape == <<wrapper.value.num_envs, 1>>
               IN /\ stepin' = [call |-> "step", action_shape |-> action_shape, res |-> res]
                  /\ stepout' = TorchVecEnvWrapper_step(action_shape, res)
       \/ /\ phase = "built"
          /\ LET action_shape == <<wrapper.value.num_envs, 1>>
             IN /\ stepin' = [call |-> "step", action_shape |-> action_shape,
                              res |-> Raise("ResetNeeded")]
                /\ stepout' = TorchVecEnvWrapper_step(action_shape, Raise("ResetNeeded"))
       \/ LET action_shape == <<wrapper.value.num_envs>>
          IN /\ stepin' = [call |-> "step", action_shape |-> action_shape, res |-> None]
             /\ stepout' = TorchVecEnvWrapper_step(action_shape, None)
    /\ UNCHANGED <<made, thunks, pending, envs, wrapper, phase, prepVars, imageVars>>

EnvNext == MakeMinigridEnv \/ InvokeThunk \/ WrapVecEnv \/ Reset \/ Step

InitEnv == EnvInit /\ PrepIdle /\ ImageIdle
SpecEnv == InitEnv /\ [][EnvNext]_vars

(***************************************************************************)
(* Claims about the preprocessing functions (checked under Spec).          *)
(***************************************************************************)
LeafKinds == {"Box", "Discrete", "MultiDiscrete", "MultiBinary"}

RECURSIVE ObsSupported(_)
ObsSupported(s) ==
    \/ s.kind \in LeafKinds
    \/ s.kind = "Dict" /\ \A k \in DOMAIN s.spaces : ObsSupported(s.spaces[k])

\* the shape the specification lists for each kind of space
RECURSIVE ListedShape(_)
ListedShape(s) ==
    IF s.kind = "Dict" THEN [k \in DOMAIN s.spaces |-> ListedShape(s.spaces[k])]
    ELSE IF s.kind = "Discrete" THEN <<1>>
    ELSE IF s.kind = "MultiDiscrete" THEN <<Len(s.nvec)>>
    ELSE s.shape

\* C1: process_observation_space maps a Box to its shape, Discrete(n) to (1,),
\* MultiDiscrete(counts) to (len(counts),), MultiBinary to its shape, and a Dict
\* to a mapping with the same keys, each key holding the result of
\* process_observation_space on its sub-space, at any nesting depth.
C1_ObservationShapes ==
    (op = "process_observation_space" /\ ObsSupported(space)) =>
        /\ ret.status = "ok"
        /\ ret.value = ListedShape(space)
        /\ space.kind = "Dict" =>
            /\ DOMAIN ret.value = DOMAIN space.spaces
            /\ \A k \in DOMAIN space.spaces :
                  Ok(ret.value[k]) = process_observation_space(space.spaces[k])

C1_Witness ==
    /\ op = "process_observation_space"
    /\ space.kind = "Dict"
    /\ \E k \in DOMAIN space.spaces :
          /\ space.spaces[k].kind = "Dict"
          /\ \E j \in DOMAIN space.spaces[k].spaces :
                /\ space.spaces[k].spaces[j].kind = "MultiDiscrete"
                /\ ret.status = "ok"
                /\ ret.value[k][j] = <<3>>

\* the number of elements of a processed shape (summed over the keys of a Dict)
RECURSIVE ElementCount(_, _)
ElementCount(v, s) ==
    IF s.kind = "Dict"
    THEN SumOver([k \in DOMAIN s.spaces |-> ElementCount(v[k], s.spaces[k])],
                 DOMAIN s.spaces)
    ELSE Prod(v)

\* C2 as stated: for every supported kind the element count of the returned
\* shape equals the flattened size of the space (get_flattened_obs_dim).
C2_AsStated ==
    (op = "process_observation_space" /\ ret.status = "ok") =>
        ElementCount(ret.value, space) = get_flattened_obs_dim(space)

C2Leaf(v, s) ==
    /\ s.kind \in {"Box", "MultiBinary"} => Prod(v) = get_flattened_obs_dim(s)
    /\ s.kind = "Discrete" =>
          /\ Prod(v) = 1
          /\ (Prod(v) = get_flattened_obs_dim(s)) <=> (s.n = 1)
    /\ s.kind = "MultiDiscrete" =>
          /\ Prod(v) = Len(s.nvec)
          /\ (Prod(v) = get_flattened_obs_dim(s)) <=>
                (\A i \in 1..Len(s.nvec) : s.nvec[i] = 1)

RECURSIVE C2Holds(_, _)
C2Holds(v, s) ==
    IF s.kind = "Dict" THEN \A k \in DOMAIN s.spaces : C2Holds(v[k], s.spaces[k])
    ELSE C2Leaf(v, s)

\* C2 (amended): the element count of the returned shape equals the flattened
\* size for Box and MultiBinary; for Discrete(n) it is 1 and for
\* MultiDiscrete(counts) it is len(counts), which equal the flattened sizes n
\* and sum(counts) only when n = 1, respectively when every count is 1; the
\* entries of a Dict follow the same rule key by key.
C2_ElementCount ==
    (op = "process_observation_space" /\ ret.status = "ok") =>
        C2Holds(ret.value, space)

C2_Witness ==
    /\ op = "process_observation_space"
    /\ space.kind = "MultiDiscrete"
    /\ space.nvec = <<3, 4, 5>>
    /\ ret.status = "ok"
    /\ Prod(ret.value) = 3
    /\ get_flattened_obs_dim(space) = 12

\* C3: for Discrete(n), n >= 1, process_action_space returns the space's shape,
\* dimension n, tag "Discrete" and range [0, n-1].
C3_DiscreteAction ==
    (op = "process_action_space" /\ space.kind = "Discrete") =>
        /\ ret.status = "ok"
        /\ ret.value.action_shape = shape_of(space)
        /\ ret.value.action_dim = space.n
        /\ ret.value.action_type = "Discrete"
        /\ ret.value.action_range = <<0, space.n - 1>>

C3_Witness ==
    /\ op = "process_action_space"
    /\ space.kind = "Discrete"
    /\ space.n = MaxN
    /\ ret.status = "ok"
    /\ ret.value.action_range = <<0, MaxN - 1>>

\* C4: for every Box of any declared shape and every MultiDiscrete(counts),
\* process_action_space succeeds; Box gives dimension product(shape), tag "Box"
\* and range [low[0], high[0]] (the first component); MultiDiscrete gives
\* dimension len(counts), tag "MultiDiscrete" and range [0, counts[0]-1].
C4_AsStated ==
    /\ (op = "process_action_space" /\ space.kind = "Box") =>
          /\ ret.status = "ok"
          /\ ret.value.action_shape = space.shape
          /\ ret.value.action_dim = Prod(space.shape)
          /\ ret.value.action_type = "Box"
          /\ ret.value.action_range = <<At(space.low, 0), At(space.high, 0)>>
    /\ (op = "process_action_space" /\ space.kind = "MultiDiscrete") =>
          /\ ret.status = "ok"
          /\ ret.value.action_shape = <<Len(space.nvec)>>
          /\ ret.value.action_dim = Len(space.nvec)
          /\ ret.value.action_type = "MultiDiscrete"
          /\ ret.value.action_range = <<0, space.nvec[1] - 1>>

\* C5: a space of a kind the function does not support makes
\* process_observation_space, process_action_space and get_preprocess_obs_fn
\* raise NotImplementedError at the call; no preprocessing function is ever
\* obtained, let alone called, for such a space.
C5_UnsupportedRaises ==
    /\ (op = "process_observation_space" /\ ~ObsSupported(space)) =>
          ret.status = "NotImplementedError"
    /\ (op = "process_action_space" /\ space.kind \notin LeafKinds) =>
          ret.status = "NotImplementedError"
    /\ (op = "get_preprocess_obs_fn" /\ space.kind \notin LeafKinds) =>
          ret.status = "NotImplementedError"
    /\ op = "preprocess_obs" => space.kind \in LeafKinds

C5_Witness ==
    /\ op = "get_preprocess_obs_fn"
    /\ space.kind = "Tuple"
    /\ ret.status = "NotImplementedError"

\* the channel count: shape[0] when axis 0 has the smallest extent, else shape[-1]
ChannelCount(shape) ==
    IF shape[1] <= shape[2] /\ shape[1] <= shape[3] THEN shape[1] ELSE shape[3]

ListedImageSpace(s, check_channels, normalized_image) ==
    /\ s.kind = "Box"
    /\ Len(s.shape) = 3
    /\ ~normalized_image =>
          /\ s.dtype = "uint8"
          /\ \A k \in 0..(Prod(s.shape) - 1) : At(s.low, k) = 0 /\ At(s.high, k) = 255
    /\ check_channels => ChannelCount(s.shape) \in {1, 3, 4}

ImageBox(dtype) == Box(<<3, 84, 84>>, dtype, Full(0), Full(255))

\* C6: is_image_space is true exactly when the space is a Box of 3 axes, and
\* (unless normalized_image) has dtype uint8 with low = 0 and high = 255 on
\* every element, and (if check_channels) its channel count is in {1,3,4}; so
\* it is true for shape (3,84,84) uint8 [0,255], false for the same with floats.
C6_IsImageSpace ==
    op = "is_image_space" =>
        /\ ret.value = ListedImageSpace(space, arg.check_channels, arg.normalized_image)
        /\ space = ImageBox("uint8") => ret.value = TRUE
        /\ (space = ImageBox("float32") /\ ~arg.normalized_image) => ret.value = FALSE

C6_Witness ==
    /\ op = "is_image_space"
    /\ space = ImageBox("uint8")
    /\ arg.check_channels
    /\ ~arg.normalized_image
    /\ ret.value = TRUE

\* the width of the one-hot blocks of the features before feature j
BlockOffset(nvec, j) == Sum(SubSeq(nvec, 1, j - 1))

\* C7: the preprocessing function one-hot encodes per feature: under Discrete(n)
\* every value v in 0..n-1 becomes a row of width n with a single 1 at index v;
\* under MultiDiscrete(counts) a batch of B rows becomes B rows of width
\* sum(counts), feature j of a row contributing a block of width counts[j]
\* after the blocks of features 0..j-1, with a single 1 at offset v.  (A batch
\* here has B >= 1 rows: an empty list is a 1-d tensor, which the MultiDiscrete
\* function refuses with IndexError.)
C7_OneHot ==
    /\ (/\ op = "preprocess_obs"
        /\ space.kind = "Discrete"
        /\ \A b \in 1..Len(arg) : arg[b] \in 0..(space.n - 1)) =>
          /\ ret.status = "ok"
          /\ Len(ret.value.data) = Len(arg)
          /\ \A b \in 1..Len(arg) :
                /\ Len(ret.value.data[b]) = space.n
                /\ \A i \in 0..(space.n - 1) :
                      ret.value.data[b][i + 1] = IF i = arg[b] THEN 1 ELSE 0
    /\ (op = "preprocess_obs" /\ space = Discrete(5) /\ arg = <<0, 2, 4>>) =>
          ret.value.data = <<<<1, 0, 0, 0, 0>>, <<0, 0, 1, 0, 0>>, <<0, 0, 0, 0, 1>>>>
    /\ (op = "preprocess_obs" /\ space.kind = "MultiDiscrete" /\ Len(arg) >= 1) =>
          /\ ret.status = "ok"
          /\ Len(ret.value.data) = Len(arg)
          /\ \A b \in 1..Len(arg) :
                /\ Len(ret.value.data[b]) = Sum(space.nvec)
                /\ \A j \in 1..Len(space.nvec) : \A v \in 0..(space.nvec[j] - 1) :
                      ret.value.data[b][BlockOffset(space.nvec, j) + v + 1]
                         = IF v = arg[b][j] THEN 1 ELSE 0

C7_Witness ==
    /\ op = "preprocess_obs"
    /\ space.kind = "MultiDiscrete"
    /\ space.nvec = <<3, 4, 5>>
    /\ arg = <<<<2, 0, 4>>, <<0, 3, 2>>>>
    /\ ret.status = "ok"
    /\ ret.value.data = <<<<0, 0, 1, 1, 0, 0, 0, 0, 0, 0, 0, 1>>,
                          <<1, 0, 0, 0, 0, 0, 1, 0, 0, 1, 0, 0>>>>

C7_WitnessDiscrete ==
    /\ op = "preprocess_obs"
    /\ space = Discrete(5)
    /\ arg = <<0, 2, 4>>
    /\ ret.status = "ok"

NearestFloat32(x, y) ==
    /\ y % Float32Step = 0
    /\ 2 * y <= 2 * x + Float32Step
    /\ 2 * x <= 2 * y + Float32Step
    /\ x % Float32Step = 0 => y = x

C9_ImageTranspose ==
    wrapped.status = "ok" =>
        LET shape == base_env.observation_space.spaces["image"].shape
            H == shape[1]
            W == shape[2]
            C == shape[3]
            declared == wrapped.value.observation_space
        IN /\ declared.kind = "Box"
           /\ declared.shape = <<C, H, W>>
           /\ declared.low = Full(0) /\ declared.high = Full(255)
           /\ observed.status = "ok" =>
                /\ shape3(observed.value) = declared.shape
                /\ \A c \in 1..C : /\ Len(observed.value[c]) = H
                                   /\ \A h \in 1..H : Len(observed.value[c][h]) = W
                /\ \A c \in 1..C, h \in 1..H, w \in 1..W :
                      observed.value[c][h][w] = base_env.obs["image"][h][w][c]

C9_Witness ==
    /\ wrapped.status = "ok"
    /\ observed.status = "ok"
    /\ base_env.observation_space.spaces["image"].shape = <<1, 2, 3>>
    /\ base_env.observation_space.spaces["image"].high = Full(10)
    /\ wrapped.value.observation_space.shape = <<3, 1, 2>>
    /\ observed.value = <<<<<<1, 4>>>>, <<<<2, 5>>>>, <<<<3, 6>>>>>>

\* C10: make_minigrid_env with num_envs = N and seed = s constructs exactly N
\* instances, the i-th (i in 0..N-1) seeded with s + i whatever the order in
\* which the constructors are invoked; no two instances share a seed.
C10_SeedOffsets ==
    made.status = "ok" =>
        LET N == made.value.num_envs
            s == made.value.seed
        IN /\ Len(thunks) = N
           /\ DOMAIN envs \subseteq 1..N
           /\ \A i \in DOMAIN envs :
                 /\ envs[i].action_space_seed = s + (i - 1)
                 /\ envs[i].observation_space_seed = s + (i - 1)
           /\ \A i \in DOMAIN envs, j \in DOMAIN envs :
                 i # j => envs[i].action_space_seed # envs[j].action_space_seed
           /\ pending = {} => DOMAIN envs = 1..N
           /\ wrapper.status = "ok" => wrapper.value.num_envs = N

C10_Witness ==
    /\ made.status = "ok"
    /\ made.value.num_envs = MaxEnvs
    /\ made.value.seed = 1
    /\ wrapper.status = "ok"
    /\ pending = {}
    /\ envs[1].action_space_seed = 1
    /\ envs[MaxEnvs].action_space_seed = MaxEnvs

\* the constructors can be invoked out of order
C10_OutOfOrder ==
    /\ made.status = "ok"
    /\ made.value.num_envs = MaxEnvs
    /\ DOMAIN envs = {MaxEnvs}

====
